---- MODULE Spec2Model ----
(***************************************************************************)
(* A model of src/src/App.tsx: the scatter plot's zoom/pan state (the d3    *)
(* zoom behaviour installed on the <svg>, the transform attribute of the    *)
(* rendering group, the React state k), the reset transition, the semantic  *)
(* unit and the per-point tooltip state.                                    *)
(*                                                                          *)
(* JavaScript numbers are modelled as exact rationals <<n, d>> in lowest    *)
(* terms with d > 0; <<0, 0>> is NaN and <<0, -1>> is undefined.            *)
(*                                                                          *)
(* The pointer model is a single mouse: no button is pressed on the <svg>   *)
(* while a wheel gesture's idle timer is pending, and the wheel is not      *)
(* turned while a button is held.  Touch input and double-click are not     *)
(* modelled.  With an empty dataset only the start-up is followed.          *)
(***************************************************************************)
EXTENDS Integers, Sequences

\* ------------------------------------------------------------ numbers

Abs(n) == IF n < 0 THEN -n ELSE n

RECURSIVE GCD(_, _)
GCD(a, b) == IF b = 0 THEN a ELSE GCD(b, a % b)

Norm(n, d) ==
    LET g == GCD(Abs(n), Abs(d))
        s == IF d < 0 THEN -1 ELSE 1
    IN  <<(s * n) \div g, (s * d) \div g>>

\* Numerators and denominators are kept below MaxMagnitude; an operation whose
\* result would not fit gives Big, and no action leads to a state holding Big.
MaxMagnitude == 1000000000
Fits(x, y) == x = 0 \/ y = 0 \/ Abs(x) <= MaxMagnitude \div Abs(y)

Rat(n, d) == Norm(n, d)
NaN == <<0, 0>>
Undefined == <<0, -1>>
Big == <<1, 0>>
Finite(a) == a[2] > 0
\* The result of an operation one of whose operands is not a finite number.
NonFinite(a, b) == IF a = Big \/ b = Big THEN Big ELSE NaN

RAdd(a, b) ==
    IF ~(Finite(a) /\ Finite(b)) THEN NonFinite(a, b)
    ELSE LET g == GCD(a[2], b[2])
             m1 == b[2] \div g
             m2 == a[2] \div g
         IN  IF Fits(a[1], m1) /\ Fits(b[1], m2) /\ Fits(a[2], m1)
             THEN Norm(a[1] * m1 + b[1] * m2, a[2] * m1) ELSE Big
RNeg(a) == IF Finite(a) THEN <<-a[1], a[2]>> ELSE a
RSub(a, b) == RAdd(a, RNeg(b))
RMul(a, b) ==
    IF ~(Finite(a) /\ Finite(b)) THEN NonFinite(a, b)
    ELSE LET g1 == GCD(Abs(a[1]), b[2])
             g2 == GCD(Abs(b[1]), a[2])
             n1 == a[1] \div g1
             n2 == b[1] \div g2
             d1 == a[2] \div g2
             d2 == b[2] \div g1
         IN  IF Fits(n1, n2) /\ Fits(d1, d2) THEN <<n1 * n2, d1 * d2>> ELSE Big
\* Division by zero does not occur in the model: every divisor is a scale or
\* a width, which are positive.
RInv(b) == IF b[1] < 0 THEN <<-b[2], -b[1]>> ELSE <<b[2], b[1]>>
RDiv(a, b) == IF ~(Finite(a) /\ Finite(b)) THEN NonFinite(a, b)
              ELSE IF b[1] = 0 THEN NaN ELSE RMul(a, RInv(b))
\* Comparisons with NaN are false, as in JavaScript.
RLt(a, b) ==
    /\ Finite(a) /\ Finite(b)
    /\ LET g == GCD(a[2], b[2])
       IN  /\ Fits(a[1], b[2] \div g) /\ Fits(b[1], a[2] \div g)
           /\ a[1] * (b[2] \div g) < b[1] * (a[2] \div g)
RLe(a, b) == a = b \/ RLt(a, b)
MathMin(a, b) == IF ~(Finite(a) /\ Finite(b)) THEN NonFinite(a, b)
                 ELSE IF RLt(b, a) THEN b ELSE a
MathMax(a, b) == IF ~(Finite(a) /\ Finite(b)) THEN NonFinite(a, b)
                 ELSE IF RLt(a, b) THEN b ELSE a
\* A number small enough to be compared with and combined with the inputs.
Representable(a) ==
    Finite(a) /\ Abs(a[1]) <= MaxMagnitude \div 100 /\ a[2] <= MaxMagnitude \div 100

Zero == <<0, 1>>
One == <<1, 1>>

\* ------------------------------------------------------------ dataset

\* data/sample-test.json is not part of the sources; the model runs on small
\* datasets of the same shape (parallel arrays), the empty one included.
Datasets ==
    { [cellid |-> << >>, xumap |-> << >>, yumap |-> << >>, celltype |-> << >>],
      [cellid |-> <<"c0", "c1">>,
       xumap |-> <<Rat(0, 1), Rat(100, 1)>>,
       yumap |-> <<Rat(0, 1), Rat(100, 1)>>,
       celltype |-> <<"Bcell", "Tcell">>],
      [cellid |-> <<"c0", "c1">>,
       xumap |-> <<Rat(10, 1), Rat(50, 1)>>,
       yumap |-> <<Rat(70, 1), Rat(20, 1)>>,
       celltype |-> <<"Bcell", "Bcell">>] }

VARIABLES
    data,       \* the imported dataset (never changes)
    phase,      \* "loaded": module evaluated; "mounted": App rendered, effect run
    zoom,       \* the <svg> node's __zoom: the behaviour's current transform
    gAttr,      \* the transform attribute of the <g>, or "none"
    k,          \* React state k
    tooltip,    \* React state tooltip of each Point, by index
    mouse,      \* the gesture's mouse: [p0 |-> pointer, p1 |-> data point], or << >>
    wheel,      \* the gesture's wheel idle timer is pending
    dragging,   \* a button is held: mousemove/mouseup listeners are installed
    trans,      \* the reset transition: scheduled / running, its start, its progress
    lastPoint,  \* what the last probed call of Point returned
    inputs,     \* number of user inputs so far
    last        \* history: the last event and the state before it

vars == <<data, phase, zoom, gAttr, k, tooltip, mouse, wheel, dragging, trans,
          lastPoint, inputs, last>>

\* A JavaScript array read: out of range gives undefined.
ArrayAt(arr, i) == IF i >= 0 /\ i < Len(arr) THEN arr[i + 1] ELSE Undefined

RECURSIVE ReduceMin(_, _, _)
ReduceMin(arr, i, acc) ==
    IF i >= Len(arr) THEN acc ELSE ReduceMin(arr, i + 1, MathMin(acc, arr[i + 1]))
RECURSIVE ReduceMax(_, _, _)
ReduceMax(arr, i, acc) ==
    IF i >= Len(arr) THEN acc ELSE ReduceMax(arr, i + 1, MathMax(acc, arr[i + 1]))

minX == ReduceMin(data.xumap, 0, ArrayAt(data.xumap, 0))
maxX == ReduceMax(data.xumap, 0, ArrayAt(data.xumap, 0))
minY == ReduceMin(data.yumap, 0, ArrayAt(data.yumap, 0))
maxY == ReduceMax(data.yumap, 0, ArrayAt(data.yumap, 0))

minZoom == Rat(1, 2)
maxZoom == Rat(100, 1)

MaxInputs == 3

\* User inputs are drawn from these sets: requested scales t.k * 2^delta of a
\* wheel event (below, at, inside and above the scale extent), pointer
\* positions in the <svg>'s user space, and the progress of a transition frame.
ReqScales == {Rat(1, 4), Rat(50, 1), Rat(75, 1), Rat(90, 1), Rat(200, 1)}
Pointers == {<<Rat(100, 1), Rat(100, 1)>>, <<Rat(60, 1), Rat(20, 1)>>}
FrameParams == {Rat(1, 8), Rat(1, 2), Rat(7, 8)}
ProbeIndices == -1 .. 2

\* ------------------------------------------------- semantic scale function

transformFuncNoCap(kk, dimension) == RDiv(dimension, kk)
transformFuncK(kk, dimension) ==
    IF RLt(kk, RMul(maxZoom, Rat(3, 4)))
    THEN RDiv(dimension, kk)
    ELSE RDiv(dimension, RMul(maxZoom, Rat(3, 4)))

transformFunc(dimension) == transformFuncK(k, dimension)

unit == transformFunc(RDiv(RSub(maxY, minY), Rat(250, 1)))

\* ------------------------------------------------------------ Point

PointOffByOne(i, u) ==
    IF i < 0 \/ i > Len(data.cellid) THEN << >>
    ELSE << [id |-> ArrayAt(data.cellid, i),
             cx |-> ArrayAt(data.xumap, i),
             cy |-> ArrayAt(data.yumap, i),
             r |-> IF i \in DOMAIN tooltip /\ tooltip[i] THEN RMul(u, Rat(2, 1)) ELSE u,
             text |-> << >>] >>

\* The Point component: nothing for an index that does not exist, else one
\* circle (and the tooltip text while tooltip is set).
Point(i, u) ==
    IF i < 0 \/ i >= Len(data.cellid) THEN << >>
    ELSE << [id |-> ArrayAt(data.cellid, i),
             cx |-> ArrayAt(data.xumap, i),
             cy |-> ArrayAt(data.yumap, i),
             r |-> IF tooltip[i] THEN RMul(u, Rat(2, 1)) ELSE u,
             text |-> IF tooltip[i]
                      THEN <<ArrayAt(data.cellid, i), ArrayAt(data.celltype, i)>>
                      ELSE << >>] >>

\* App's render: one Point per element of data.cellid.
Scene == [j \in 1 .. Len(data.cellid) |-> Point(j - 1, unit)]

\* ------------------------------------------------------------ d3 transforms

Transform(kk, x, y) == [k |-> kk, x |-> x, y |-> y]
zoomIdentity == Transform(One, Zero, Zero)
\* transform.scale(k)
TransformScale(t, kk) == Transform(RMul(t.k, kk), t.x, t.y)
InvertNoScale(t, p) == <<RSub(p[1], t.x), RSub(p[2], t.y)>>
\* transform.invert(p) and transform.apply(q)
Invert(t, p) == <<RDiv(RSub(p[1], t.x), t.k), RDiv(RSub(p[2], t.y), t.k)>>
Apply(t, q) == <<RAdd(RMul(q[1], t.k), t.x), RAdd(RMul(q[2], t.k), t.y)>>
\* transform.toString(): "translate(x,y) scale(k)", as the attribute's content
transformToString(t) == [translate |-> <<t.x, t.y>>, scale |-> t.k]

ClampScaleNoMax(s) == MathMax(minZoom, s)
\* The behaviour's scale extent, set by .scaleExtent([minZoom, maxZoom]).
ClampScale(s) == MathMax(minZoom, MathMin(maxZoom, s))
\* The behaviour's scale(transform, k) and translate(transform, p0, p1).
ScaleTo(t, kk) == Transform(ClampScale(kk), t.x, t.y)
TranslateKeep(t, p0, p1) == t
Translate(t, p0, p1) ==
    Transform(t.k, RSub(p0[1], RMul(p1[1], t.k)), RSub(p0[2], RMul(p1[2], t.k)))

OverviewFullScale == TransformScale(zoomIdentity, Rat(8, 1))
\* The resetZoom target, d3.zoomIdentity.scale(0.8).
Overview == TransformScale(zoomIdentity, Rat(4, 5))

\* The behaviour's extent is the viewBox; a transition with no point given is
\* centred on the extent's centroid and sized by its larger side.
ExtentCentre == <<RDiv(RAdd(minX, maxX), Rat(2, 1)), RDiv(RAdd(minY, maxY), Rat(2, 1))>>
ExtentSize == MathMax(RSub(maxX, minX), RSub(maxY, minY))

\* d3.interpolateZoom between the views p0 = <<ux0, uy0, w0>> and p1, at some
\* time strictly between the start and the end.  With d2 the squared distance
\* of the centres, the interpolated views lie on the curve
\*     w^2 = w0^2 + f (w1^2 - w0^2) + 4 d2 f (1 - f),  u = u0 + f (u1 - u0),
\* with f running from 0 to 1.  lam selects the point of it that is the second
\* intersection with the line of slope m through the start (f = 0, w = w0), so
\* that its coordinates are rational; a larger lam is a later frame.  When the
\* centres coincide the centre stays and the width runs between w0 and w1.
ZoomPathB(w0, w1, d2) ==
    RAdd(RSub(RMul(w1, w1), RMul(w0, w0)), RMul(Rat(4, 1), d2))
ZoomPathSlope(w0, w1, mStart, lam) ==
    RSub(mStart, RMul(lam, RSub(mStart, RSub(w1, w0))))
ZoomPathFraction(w0, d2, B, m) ==
    RDiv(RSub(B, RMul(RMul(Rat(2, 1), w0), m)), RAdd(RMul(m, m), RMul(Rat(4, 1), d2)))
ZoomPathView(p0, dx, dy, f, w) ==
    <<RAdd(p0[1], RMul(f, dx)), RAdd(p0[2], RMul(f, dy)), w>>
ZoomPathGeneral(p0, p1, dx, dy, d2, B, lam) ==
    LET m == ZoomPathSlope(p0[3], p1[3], RDiv(B, RMul(Rat(2, 1), p0[3])), lam)
        f == ZoomPathFraction(p0[3], d2, B, m)
    IN  ZoomPathView(p0, dx, dy, f, RAdd(p0[3], RMul(m, f)))
ZoomPath(p0, p1, dx, dy, d2, lam) ==
    IF d2 = Zero
    THEN <<p0[1], p0[2], RAdd(p0[3], RMul(lam, RSub(p1[3], p0[3])))>>
    ELSE ZoomPathGeneral(p0, p1, dx, dy, d2, ZoomPathB(p0[3], p1[3], d2), lam)
interpolateZoom(p0, p1, lam) ==
    LET dx == RSub(p1[1], p0[1])
        dy == RSub(p1[2], p0[2])
    IN  ZoomPath(p0, p1, dx, dy, RAdd(RMul(dx, dx), RMul(dy, dy)), lam)

\* The view of a transform: the data point at the extent's centre and the
\* width shown; and the transform of a view.
TransformView(t) ==
    <<Invert(t, ExtentCentre)[1], Invert(t, ExtentCentre)[2], RDiv(ExtentSize, t.k)>>
ViewScale(l) == RDiv(ExtentSize, l[3])
ViewTransform(l, kk) ==
    Transform(kk, RSub(ExtentCentre[1], RMul(l[1], kk)),
                  RSub(ExtentCentre[2], RMul(l[2], kk)))

\* One frame of the transition's tween from a to b, before its end.
TweenFrameOf(l) == ViewTransform(l, ViewScale(l))
TweenFrame(a, b, lam) ==
    TweenFrameOf(interpolateZoom(TransformView(a), TransformView(b), lam))

\* ------------------------------------------------------------ state machine

NoTransition == [scheduled |-> FALSE, running |-> FALSE, a |-> zoomIdentity, lam |-> Zero]
InFlight == trans.scheduled \/ trans.running

\* interrupt(node): every transition of the node, scheduled or running, is gone.
InterruptKeepsScheduled(tr) == [NoTransition EXCEPT !.scheduled = tr.scheduled]
interrupt(tr) == NoTransition

\* The history record of an event: what it was and the state it found.
Event(op, handled, fresh, p, req, t) ==
    [op |-> op, handled |-> handled, fresh |-> fresh, p |-> p, req |-> req,
     moved |-> t # zoom,
     inflight |-> InFlight, pre |-> zoom, preK |-> k, preScene |-> Scene,
     preMouse |-> mouse,
     resets |-> IF op = "end" THEN (IF last.resets >= 1 THEN 2 ELSE 1)
                ELSE IF handled /\ op \in {"wheel", "mousemove"} THEN 0
                ELSE last.resets,
     cancelled |-> IF op = "resetZoom" THEN FALSE
                   ELSE IF fresh /\ InFlight THEN TRUE
                   ELSE last.cancelled,
     preempt |-> IF op = "resetZoom" THEN FALSE
                 ELSE IF handled /\ InFlight /\ t # zoom /\ op \in {"wheel", "mousemove"}
                 THEN TRUE
                 ELSE last.preempt,
     framed |-> IF op = "frame" THEN TRUE
                ELSE IF op = "end" \/ (handled /\ op = "wheel") THEN FALSE
                ELSE last.framed,
     preFramed |-> last.framed,
     from |-> IF op = "start" /\ last.resets = 0 THEN zoom ELSE last.from]

NoPointer == <<Zero, Zero>>

Init ==
    /\ data \in Datasets
    /\ phase = "loaded"
    /\ zoom = zoomIdentity
    /\ gAttr = << >>
    /\ k = One
    /\ tooltip = [i \in 0 .. Len(data.cellid) - 1 |-> FALSE]
    /\ mouse = << >>
    /\ wheel = FALSE
    /\ dragging = FALSE
    /\ trans = NoTransition
    /\ lastPoint = << >>
    /\ inputs = 0
    /\ last = [op |-> "init", handled |-> FALSE, fresh |-> FALSE, moved |-> FALSE,
               p |-> NoPointer,
               req |-> Zero, inflight |-> FALSE, pre |-> zoomIdentity, preK |-> One,
               preScene |-> << >>, preMouse |-> << >>, resets |-> 0,
               cancelled |-> FALSE, preempt |-> FALSE, framed |-> FALSE,
               preFramed |-> FALSE, from |-> zoomIdentity]

\* The first render and the effect that installs the zoom behaviour.  Nothing
\* in the module's top level or in App looks at the dataset's size.
Mount ==
    /\ phase = "loaded"
    /\ phase' = "mounted"
    /\ last' = Event("mount", TRUE, FALSE, NoPointer, Zero, zoom)
    /\ UNCHANGED <<data, zoom, gAttr, k, tooltip, mouse, wheel, dragging, trans,
                   lastPoint, inputs>>

Ready == phase = "mounted" /\ Len(data.cellid) > 0

ZoomEventNoSetK(t) ==
    /\ zoom' = t
    /\ gAttr' = <<transformToString(t)>>
    /\ k' = k

\* The "zoom" listener of App, run by gesture.zoom after it has stored the
\* transform in the node's __zoom.
ZoomEvent(t) ==
    /\ Representable(t.k) /\ Representable(t.x) /\ Representable(t.y)
    /\ zoom' = t
    /\ gAttr' = <<transformToString(t)>>
    /\ k' = t.k

\* A wheel event over the <svg> asking for scale s at pointer p.
Wheel(s, p) ==
    /\ Ready /\ ~dragging /\ inputs < MaxInputs
    /\ inputs' = inputs + 1
    /\ LET t == zoom
           kk == ClampScale(s)
       IN  IF wheel
           THEN \* a wheel gesture is under way: keep or move its anchor
                LET m == IF mouse[1].p0 # p
                         THEN [p0 |-> p, p1 |-> Invert(t, p)] ELSE mouse[1]
                IN  /\ mouse' = <<m>>
                    /\ ZoomEvent(Translate(ScaleTo(t, kk), m.p0, m.p1))
                    /\ last' = Event("wheel", TRUE, FALSE, p, s,
                                     Translate(ScaleTo(t, kk), m.p0, m.p1))
                    /\ UNCHANGED <<wheel, trans>>
           ELSE IF t.k = kk
           THEN \* the event would not change the scale: ignored
                /\ last' = Event("wheel", FALSE, FALSE, p, s, zoom)
                /\ UNCHANGED <<zoom, gAttr, k, mouse, wheel, trans>>
           ELSE \* a new wheel gesture: interrupts the node's transitions
                LET m == [p0 |-> p, p1 |-> Invert(t, p)]
                IN  /\ mouse' = <<m>>
                    /\ trans' = interrupt(trans)
                    /\ wheel' = TRUE
                    /\ ZoomEvent(Translate(ScaleTo(t, kk), m.p0, m.p1))
                    /\ last' = Event("wheel", TRUE, TRUE, p, s,
                                     Translate(ScaleTo(t, kk), m.p0, m.p1))
    /\ UNCHANGED <<data, phase, tooltip, dragging, lastPoint>>

\* The wheel idle timer fires: the wheel gesture is over.
WheelIdled ==
    /\ wheel
    /\ wheel' = FALSE
    /\ mouse' = << >>
    /\ last' = Event("wheelidled", FALSE, FALSE, NoPointer, Zero, zoom)
    /\ UNCHANGED <<data, phase, zoom, gAttr, k, tooltip, dragging, trans,
                   lastPoint, inputs>>

\* A button press on the <svg> at p: a new gesture, which interrupts the
\* node's transitions and anchors the data point under the pointer.
MouseDown(p) ==
    /\ Ready /\ ~dragging /\ ~wheel /\ inputs < MaxInputs
    /\ inputs' = inputs + 1
    /\ mouse' = <<[p0 |-> p, p1 |-> Invert(zoom, p)]>>
    /\ trans' = interrupt(trans)
    /\ dragging' = TRUE
    /\ last' = Event("mousedown", TRUE, TRUE, p, Zero, zoom)
    /\ UNCHANGED <<data, phase, zoom, gAttr, k, tooltip, wheel, lastPoint>>

\* The pointer moves to p with the button held: the anchored data point
\* follows the pointer.
MouseMove(p) ==
    /\ dragging /\ inputs < MaxInputs
    /\ inputs' = inputs + 1
    /\ mouse' = <<[p0 |-> p, p1 |-> mouse[1].p1]>>
    /\ ZoomEvent(Translate(zoom, p, mouse[1].p1))
    /\ last' = Event("mousemove", TRUE, FALSE, p, Zero, Translate(zoom, p, mouse[1].p1))
    /\ UNCHANGED <<data, phase, tooltip, wheel, dragging, trans, lastPoint>>

MouseUp ==
    /\ dragging
    /\ dragging' = FALSE
    /\ mouse' = << >>
    /\ last' = Event("mouseup", FALSE, FALSE, NoPointer, Zero, zoom)
    /\ UNCHANGED <<data, phase, zoom, gAttr, k, tooltip, wheel, trans,
                   lastPoint, inputs>>

\* A click on one of the two panels: a 250 ms transition to the overview is
\* scheduled on the <svg>.  (The pointer is on the panel, so no button is held
\* on the <svg>.)
resetZoom ==
    /\ Ready /\ ~dragging /\ inputs < MaxInputs
    /\ inputs' = inputs + 1
    /\ trans' = [trans EXCEPT !.scheduled = TRUE]
    /\ last' = Event("resetZoom", TRUE, FALSE, NoPointer, Zero, zoom)
    /\ UNCHANGED <<data, phase, zoom, gAttr, k, tooltip, mouse, wheel, dragging,
                   lastPoint>>

\* The scheduled transition starts: it replaces a running one, and its tween
\* is initialised from the node's transform of that moment.
TransitionStart ==
    /\ trans.scheduled
    /\ trans' = [scheduled |-> FALSE, running |-> TRUE, a |-> zoom, lam |-> Zero]
    /\ last' = Event("start", FALSE, FALSE, NoPointer, Zero, zoom)
    /\ UNCHANGED <<data, phase, zoom, gAttr, k, tooltip, mouse, wheel, dragging,
                   lastPoint, inputs>>

\* gesture.zoom(null, t) of a tween: a gesture's anchor follows the transform.
SyncMouse(t) ==
    IF Len(mouse) = 0 THEN << >>
    ELSE <<[p0 |-> mouse[1].p0, p1 |-> Invert(t, mouse[1].p0)]>>

\* An animation frame before the transition's end.
TransitionFrame(lam) ==
    /\ trans.running
    /\ RLt(trans.lam, lam)
    /\ LET t == TweenFrame(trans.a, Overview, lam)
       IN  /\ mouse' = SyncMouse(t)
           /\ ZoomEvent(t)
           /\ last' = Event("frame", FALSE, FALSE, NoPointer, Zero, t)
    /\ trans' = [trans EXCEPT !.lam = lam]
    /\ UNCHANGED <<data, phase, tooltip, wheel, dragging, lastPoint, inputs>>

\* The last frame: the tween is given t = 1 and applies the target itself.
TransitionEnd ==
    /\ trans.running
    /\ mouse' = SyncMouse(Overview)
    /\ ZoomEvent(Overview)
    /\ trans' = [trans EXCEPT !.running = FALSE, !.a = zoomIdentity, !.lam = Zero]
    /\ last' = Event("end", FALSE, FALSE, NoPointer, Zero, Overview)
    /\ UNCHANGED <<data, phase, tooltip, wheel, dragging, lastPoint, inputs>>

setTooltipShown(i, v) == tooltip' = [tooltip EXCEPT ![i] = TRUE]
\* onMouseEnter / onMouseLeave of point i's circle.
setTooltip(i, v) == tooltip' = [tooltip EXCEPT ![i] = v]

MouseEnter(i) ==
    /\ phase = "mounted" /\ inputs < MaxInputs
    /\ i \in DOMAIN tooltip /\ ~tooltip[i]
    /\ inputs' = inputs + 1
    /\ setTooltip(i, TRUE)
    /\ last' = Event("mouseenter", TRUE, FALSE, <<Rat(i, 1), Zero>>, Zero, zoom)
    /\ UNCHANGED <<data, phase, zoom, gAttr, k, mouse, wheel, dragging, trans,
                   lastPoint>>

MouseLeave(i) ==
    /\ phase = "mounted" /\ inputs < MaxInputs
    /\ i \in DOMAIN tooltip /\ tooltip[i]
    /\ inputs' = inputs + 1
    /\ setTooltip(i, FALSE)
    /\ last' = Event("mouseleave", TRUE, FALSE, <<Rat(i, 1), Zero>>, Zero, zoom)
    /\ UNCHANGED <<data, phase, zoom, gAttr, k, mouse, wheel, dragging, trans,
                   lastPoint>>

\* Point rendered with an arbitrary index i and the current unit.
RenderPoint(i) ==
    /\ phase = "mounted" /\ inputs < MaxInputs
    /\ inputs' = inputs + 1
    /\ lastPoint' = Point(i, unit)
    /\ last' = Event("point", TRUE, FALSE, <<Rat(i, 1), Zero>>, Zero, zoom)
    /\ UNCHANGED <<data, phase, zoom, gAttr, k, tooltip, mouse, wheel, dragging,
                   trans>>

Next ==
    \/ Mount
    \/ \E s \in ReqScales, p \in Pointers : Wheel(s, p)
    \/ WheelIdled
    \/ \E p \in Pointers : MouseDown(p)
    \/ \E p \in Pointers : MouseMove(p)
    \/ MouseUp
    \/ resetZoom
    \/ TransitionStart
    \/ \E lam \in FrameParams : TransitionFrame(lam)
    \/ TransitionEnd
    \/ \E i \in 0 .. 1 : MouseEnter(i)
    \/ \E i \in 0 .. 1 : MouseLeave(i)
    \/ \E i \in ProbeIndices : RenderPoint(i)

Spec == Init /\ [][Next]_vars

\* ------------------------------------------------------------ properties

Half == Rat(1, 2)
Hundred == Rat(100, 1)
CapK == Rat(75, 1)
OverviewTransform == [k |-> Rat(4, 5), x |-> Zero, y |-> Zero]
BaseUnit == RDiv(RSub(maxY, minY), Rat(250, 1))
Centre(j) == <<Scene[j][1].cx, Scene[j][1].cy>>
VecSub(a, b) == <<RSub(a[1], b[1]), RSub(a[2], b[2])>>
WheelClamped == last.op = "wheel" => zoom.k = MathMax(Half, MathMin(Hundred, last.req))
InExtent(x) == RLe(Half, x) /\ RLe(x, Hundred)

C2_Unit ==
    Ready =>
        /\ RLt(k, CapK) => unit = RDiv(BaseUnit, k)
        /\ RLe(CapK, k) => unit = RDiv(BaseUnit, CapK)
        /\ RLe(RDiv(BaseUnit, CapK), unit)
        /\ \A kk \in {ClampScale(s) : s \in ReqScales} \cup {One} :
              /\ RLe(k, kk) => RLe(transformFuncK(kk, BaseUnit), unit)
              /\ RLe(kk, k) => RLe(unit, transformFuncK(kk, BaseUnit))
        /\ RSub(maxY, minY) = Hundred =>
              /\ k = One => unit = Rat(2, 5)
              /\ k = Rat(50, 1) => unit = Rat(1, 125)
              /\ k = Rat(90, 1) => unit = Rat(2, 375)

\* The domain is 100 high and the scale is 90, above capK.
C2_Witness ==
    Ready /\ RSub(maxY, minY) = Hundred /\ k = Rat(90, 1) /\ unit = Rat(2, 375)

\* C3: a reset that runs to its end leaves scale 0.8 and translate (0, 0),
\* whatever the transform before it, and a second reset with no gesture in
\* between leaves (and shows throughout) the same transform.
C3_Reset ==
    /\ last.op = "end" =>
          /\ zoom = OverviewTransform
          /\ gAttr = <<[translate |-> <<Zero, Zero>>, scale |-> Rat(4, 5)]>>
          /\ k = Rat(4, 5)
    /\ last.resets >= 1 => zoom = OverviewTransform /\ k = Rat(4, 5)

\* Two resets have run to their end with no gesture in between, the first of
\* them from a zoomed-in and panned transform.
C3_Witness ==
    /\ last.op = "end" /\ last.resets = 2
    /\ last.from.k = Rat(50, 1) /\ last.from.x # Zero

\* C4: after a wheel zoom gesture at pointer p, the data point that was under p
\* before the gesture is drawn at p.
C4_Anchor ==
    (last.op = "wheel" /\ last.handled) =>
        Apply(zoom, Invert(last.pre, last.p)) = last.p

\* A wheel gesture within the scale extent changed the scale at a pointer away
\* from the origin, from a transform that was itself not the identity.
C4_Witness ==
    /\ last.op = "wheel" /\ last.handled /\ last.req = Rat(50, 1)
    /\ last.pre.k = Rat(90, 1) /\ last.pre.x # Zero
    /\ last.p = <<Rat(60, 1), Rat(20, 1)>> /\ zoom.k = Rat(50, 1)

\* C5: a pan (a pointer move with the button held) leaves the scale, k, and
\* every marker's radius and data coordinates unchanged, and moves every
\* marker's centre on screen by the pointer's displacement.
C5_Pan ==
    last.op = "mousemove" =>
        /\ zoom.k = last.pre.k
        /\ k = last.preK
        /\ Scene = last.preScene
        /\ \A j \in 1 .. Len(data.cellid) :
              VecSub(Apply(zoom, Centre(j)), Apply(last.pre, Centre(j)))
                  = VecSub(last.p, last.preMouse[1].p0)

\* A pan by a non-zero displacement at a scale other than 1.
C5_Witness ==
    /\ last.op = "mousemove" /\ last.p # last.preMouse[1].p0
    /\ zoom.k = Rat(50, 1) /\ zoom # last.pre

\* C6 (as stated): once a gesture has changed the transform while a reset
\* transition was in flight, no transition is in flight and no frame of it is
\* applied, until reset is invoked again.
C6_AnyGesturePreempts ==
    last.preempt => ~InFlight /\ last.op \notin {"start", "frame", "end"}

\* C6 (amended): a gesture that starts while a reset transition is in flight (a
\* button press, or a wheel event that begins a wheel gesture and changes the
\* scale) cancels it: the transform is the one the gesture made of the
\* transform it found, and no transition is in flight and no frame is applied
\* until reset is invoked again.
C6_NewGesturePreempts ==
    /\ last.cancelled => ~InFlight /\ last.op \notin {"start", "frame", "end"}
    /\ (last.fresh /\ last.inflight /\ last.op = "mousedown") => zoom = last.pre
    /\ (last.fresh /\ last.inflight /\ last.op = "wheel") =>
          /\ zoom.k = MathMax(Half, MathMin(Hundred, last.req))
          /\ Apply(zoom, Invert(last.pre, last.p)) = last.p

\* A wheel gesture began while a reset was running, after frames of it had
\* been applied.
C6_Witness ==
    /\ last.op = "wheel" /\ last.fresh /\ last.inflight /\ last.preFramed
    /\ ~InFlight /\ zoom # last.pre

\* C7: every point starts hidden; hover-enter shows the point's tooltip and
\* doubles its radius; hover-leave after it hides the tooltip and gives radius
\* unit; the marker stays at the point's data coordinates.
C7_Tooltip ==
    /\ last.op \in {"init", "mount"} => \A i \in DOMAIN tooltip : ~tooltip[i]
    /\ \A i \in DOMAIN tooltip :
          /\ (last.op = "mouseenter" /\ last.p[1] = Rat(i, 1)) =>
                /\ tooltip[i]
                /\ Point(i, unit)[1].r = RMul(Rat(2, 1), unit)
          /\ (last.op = "mouseleave" /\ last.p[1] = Rat(i, 1)) =>
                /\ ~tooltip[i]
                /\ Point(i, unit)[1].r = unit
          /\ Point(i, unit)[1].cx = data.xumap[i + 1]
          /\ Point(i, unit)[1].cy = data.yumap[i + 1]

\* Point 1 was entered and left, at a scale other than 1.
C7_Witness ==
    last.op = "mouseleave" /\ last.p[1] = One /\ ~tooltip[1] /\ k # One

\* C8: with an empty dataset no plot is rendered.
C8_EmptyDatasetGuarded ==
    Len(data.xumap) = 0 => phase # "mounted"

\* C9: k is 1 with the identity transform until the first zoom event, and
\* from then on k is the scale of the transform applied to the group, which is
\* the behaviour's transform; unit is computed from that scale.
C9_PublishedScale ==
    /\ gAttr = << >> => k = One /\ zoom = zoomIdentity
    /\ gAttr # << >> =>
          /\ gAttr[1] = [translate |-> <<zoom.x, zoom.y>>, scale |-> zoom.k]
          /\ k = gAttr[1].scale
    /\ Ready => unit = transformFuncK(zoom.k, BaseUnit)

\* A frame of a reset transition has been applied and published.
C9_Witness ==
    last.op = "frame" /\ gAttr # << >> /\ k = zoom.k /\ k # last.preK

\* C10: Point with an index outside [0, number of points) produces nothing and
\* leaves every tooltip state as it was; with an index inside it produces
\* exactly one marker, at that point's data coordinates.
C10_PointIndex ==
    /\ \A i \in ProbeIndices :
          IF i < 0 \/ i >= Len(data.cellid)
          THEN Point(i, unit) = << >>
          ELSE /\ Len(Point(i, unit)) = 1
               /\ Point(i, unit)[1].cx = data.xumap[i + 1]
               /\ Point(i, unit)[1].cy = data.yumap[i + 1]
    /\ last.op = "point" =>
          /\ lastPoint = Point(last.p[1][1], unit)
          /\ Scene = last.preScene
          /\ DOMAIN tooltip = 0 .. Len(data.cellid) - 1

\* Point was rendered with the index one past the last point.
C10_Witness ==
    /\ last.op = "point" /\ Len(data.cellid) = 2 /\ last.p[1] = Rat(2, 1)
    /\ lastPoint = << >>

====
